---- MODULE Spec2Model ----
(***************************************************************************)
(* A model of the f1_telemetry.core race simulation: Car (car.py),         *)
(* RaceController (race.py), the parts of Track (track.py) that the        *)
(* simulation reads, and TelemetryManager's current-state cache            *)
(* (telemetry.py).                                                         *)
(*                                                                         *)
(* Units.  The code works on floats; the model keeps every quantity as an  *)
(* integer multiple of a fixed unit:                                       *)
(*   track position  1/100000 lap   (PosScale)                             *)
(*   time, dt x mult 1/20 second    (TimeScale; multiplier in 1/20)        *)
(*   speed           km/h                                                  *)
(*   tire wear       1/50 percent   (TireScale)                            *)
(*   fuel, damage    percent                                               *)
(*   brake           1/100                                                 *)
(*   gaps            1/100000 second                                       *)
(*   bank angle      1/100000 degree                                       *)
(* dt is a whole number of seconds.  The thresholds of the code (0.95,     *)
(* 0.05, 0.02, 0.003, 20%, 1.0 s) are exact in these units; the movement   *)
(* of a car per tick is rounded down to the position unit.                 *)
(***************************************************************************)
EXTENDS Integers, Sequences, FiniteSets, TLC

VARIABLES
    teams_arg,         \* the teams argument of RaceController(...), by its length
    points,            \* Track.points, by their bank angles
    cars,              \* RaceController.cars: car index -> Car fields
    total_laps,        \* RaceController.config.total_laps
    is_running,        \* RaceController.is_running
    is_paused,         \* RaceController.is_paused
    race_time,         \* RaceController.race_time
    current_lap,       \* RaceController.current_lap
    speed_multiplier,  \* RaceController.speed_multiplier
    race_finished,     \* RaceController.race_finished
    winner,            \* RaceController.winner (car index, NONE when unset)
    car_data,          \* TelemetryManager._car_data
    race_data,         \* TelemetryManager._race_data
    emitted,           \* TelemetryManager._export_buffer, by its length
    last_op,           \* history: the operation called last
    last_dt,           \* history: the dt of the last update call
    after_positions,   \* history: cars as _update_positions left them in the last tick
    hits,              \* history: the apply_damage calls of _check_collisions in the last tick
    channel,           \* a TelemetryChannel: _subscribers, _buffer, and the last push
    ops                \* history: number of control operations called so far

vars == <<teams_arg, points, cars, total_laps, is_running, is_paused, race_time, current_lap,
          speed_multiplier, race_finished, winner, car_data, race_data,
          emitted, last_op, last_dt, after_positions, hits, channel, ops>>

(***************************************************************************)
(* Bounds of the model.                                                    *)
(***************************************************************************)
NumCars == 3
MaxTotalLaps == 1
MaxOps == 2
MaxTicks == 3
MaxPitTicks == 2680
SoloLaps == 2
MaxSoloTicks == 400
GridCars == 67
MaxGridTicks == 4
ContactCars == 3
MaxContactTicks == 5
MaxConfigTicks == 30
MaxStopTicks == 6
MaxWearTicks == 8000
MaxFastTicks == 60
MaxFinishTicks == 12
MaxCallbacks == 3
BufferSize == 2

Cars == 1..NumCars

(***************************************************************************)
(* Units and program constants.                                            *)
(***************************************************************************)
PosScale == 100000
TimeScale == 20
TireScale == 50

NONE == 0
INF == 1000000000

MAX_SPEED == 350
MIN_SPEED == 80
ACCELERATION == 1500
TIRE_WEAR_RATE == 2
FUEL_PER_LAP == 2
ACCEL_RATE == 50
BRAKE_RATE == 100
DRS_BOOST == 20
CRITICAL_TIRE == 20
PIT_TOLERANCE == 2000
LAP_EDGE_HIGH == 95000
LAP_EDGE_LOW == 5000
PIT_REPAIR == 20
ENTRY_T == 92000
PIT_STOP_DURATION == 70
TOTAL_LAPS == 50
PIT_LAP_LO == 20
PIT_LAP_HI == 30
GRID_FRONT == 98000
GRID_STEP == 1500
DEFAULT_MULTIPLIER == 5
MIN_MULTIPLIER == 2
MAX_MULTIPLIER == 200
SECONDS_PER_LAP == 90
COLLISION_DIST == 300
DRS_GAP == 100000

Drivers == <<"Karina", "Lewis", "Rolf", "Richa", "Dennis", "Sujith">>

Banks == <<0, 0, 0, 0, 0, 5, 10, 8, -8, 10, -10, 8, -5, 3, 0, 0, 0, 0, 0,
           6, 10, 8, 3, -5, 8, 10, 5, -3, 5, 3, 8, 10, 6, -5, 8, 5, 10, 8,
           5, 12, 10, 8, 5, -3, 0, 0, 0, 8, 10, 8, 10, 12, 10, 5, 3, 0, 0>>

DrsZones == {<<40000, 48000>>, <<62000, 72000>>}

(***************************************************************************)
(* Inputs.                                                                 *)
(***************************************************************************)
DtSet == {-1, 0, 1}
PitDts == {4}
DamageDraws == {1, 5}
DamageAmounts == {30, 100}
SpeedInputs == {1, 40, 400}
PitDurations == {PIT_STOP_DURATION}
ContactDamages == {96}
ConfigRosters == {0, 2}
StopDamages == {15, 30}
StopCars == {1, 2}
WearDt == 3
WearDamages == {80}
Callbacks == 1..MaxCallbacks
CallbackDoes ==
    { [what |-> what, whom |-> NONE] : what \in {"returns", "raises"} }
        \cup { [what |-> "unsubscribes", whom |-> cb] : cb \in Callbacks }
PushData == {1, 2}
ConfigTracks == {Banks, <<0, 5, 10>>}

Min(a, b) == IF a < b THEN a ELSE b
Max(a, b) == IF a > b THEN a ELSE b
Abs(a) == IF a < 0 THEN -a ELSE a

(***************************************************************************)
(* Track                                                                   *)
(***************************************************************************)
\* Track.get_bank_at, in 1/PosScale degree: linear interpolation between the two
\* control points around t.
get_bank_at(t) ==
    LET n == Len(points)
        segment == (t % PosScale) * n
        i == segment \div PosScale
        local_t == segment % PosScale
        bank1 == points[(i % n) + 1]
        bank2 == points[((i + 1) % n) + 1]
    IN  bank1 * PosScale + (bank2 - bank1) * local_t

\* DRSZone.contains
contains(zone, t) ==
    IF zone[1] < zone[2]
    THEN zone[1] <= t /\ t <= zone[2]
    ELSE t >= zone[1] \/ t <= zone[2]

\* Track.is_in_drs_zone
is_in_drs_zone(t) == \E zone \in DrsZones : contains(zone, t)

(***************************************************************************)
(* Car                                                                     *)
(***************************************************************************)
\* Car.__init__ for the car of roster slot start_position
NewCar(start_position) ==
    [ start_position |-> start_position,
      position       |-> start_position,
      track_t        |-> 0,
      state          |-> "GRID",
      speed          |-> 0,
      rpm            |-> 0,
      gear           |-> 1,
      throttle       |-> 0,
      brake          |-> 0,
      drs            |-> FALSE,
      tire_wear      |-> 100 * TireScale,
      fuel_remaining |-> 100,
      current_lap    |-> 0,
      lap_time       |-> 0,
      last_lap_time  |-> 0,
      best_lap_time  |-> INF,
      gap_to_leader  |-> 0,
      gap_to_ahead   |-> 0,
      pit_stops_made |-> 0,
      pit_stop_timer |-> 0,
      target_pit_lap |-> NONE,
      current_speed  |-> 0,
      target_speed   |-> 0,
      damage         |-> 0 ]

\* Car._base_performance, in percent
base_performance(c) == 100 + (6 - c.start_position)

\* a variant of the lap completion that adds the wear to the tires
on_lap_complete_adds_wear(c) ==
    LET wear == (TIRE_WEAR_RATE * (100 + c.damage) * TireScale) \div 100
    IN  [c EXCEPT
           !.current_lap = @ + 1,
           !.last_lap_time = c.lap_time,
           !.best_lap_time = IF c.lap_time < @ /\ c.lap_time > 0
                             THEN c.lap_time ELSE @,
           !.lap_time = 0,
           !.tire_wear = @ + wear,
           !.fuel_remaining = Max(0, @ - FUEL_PER_LAP)]

\* a variant of the lap completion whose tire wear has no floor
on_lap_complete_no_floor(c) ==
    LET wear == (TIRE_WEAR_RATE * (100 + c.damage) * TireScale) \div 100
    IN  [c EXCEPT
           !.current_lap = @ + 1,
           !.last_lap_time = c.lap_time,
           !.best_lap_time = IF c.lap_time < @ /\ c.lap_time > 0
                             THEN c.lap_time ELSE @,
           !.lap_time = 0,
           !.tire_wear = @ - wear,
           !.fuel_remaining = Max(0, @ - FUEL_PER_LAP)]

\* Car._on_lap_complete
on_lap_complete(c) ==
    LET wear == (TIRE_WEAR_RATE * (100 + c.damage) * TireScale) \div 100
    IN  [c EXCEPT
           !.current_lap = @ + 1,
           !.last_lap_time = c.lap_time,
           !.best_lap_time = IF c.lap_time < @ /\ c.lap_time > 0
                             THEN c.lap_time ELSE @,
           !.lap_time = 0,
           !.tire_wear = Max(0, @ - wear),
           !.fuel_remaining = Max(0, @ - FUEL_PER_LAP)]

\* a variant of the setter that counts a lap whenever the car is just past
\* the line
set_track_t_low_only(c, value) ==
    LET new_t == value % PosScale
        moved == [c EXCEPT !.track_t = new_t]
    IN  IF new_t < LAP_EDGE_LOW
        THEN on_lap_complete(moved)
        ELSE moved

\* Car.track_t setter: wraps at one lap, and detects the lap-completion edge
set_track_t(c, value) ==
    LET old_t == c.track_t
        new_t == value % PosScale
        moved == [c EXCEPT !.track_t = new_t]
    IN  IF old_t > LAP_EDGE_HIGH /\ new_t < LAP_EDGE_LOW
        THEN on_lap_complete(moved)
        ELSE moved

\* Car._update_target_speed
update_target_speed(c) ==
    LET bank == Abs(get_bank_at(c.track_t))
        base == IF bank > 8 * PosScale THEN MIN_SPEED + 50
                ELSE IF bank > 5 * PosScale THEN MIN_SPEED + 100
                ELSE IF bank > 2 * PosScale THEN MAX_SPEED - 80
                ELSE MAX_SPEED
    IN  [c EXCEPT !.target_speed =
           IF is_in_drs_zone(c.track_t) /\ c.drs
           THEN Min(base + DRS_BOOST, MAX_SPEED)
           ELSE base]

\* Car._update_speed
update_speed(c, dt) ==
    IF c.current_speed < c.target_speed
    THEN [c EXCEPT
            !.current_speed = Min(c.current_speed + ACCEL_RATE * dt, c.target_speed),
            !.throttle = 1,
            !.brake = 0]
    ELSE LET s == Max(c.current_speed - BRAKE_RATE * dt, c.target_speed)
         IN  [c EXCEPT
                !.current_speed = s,
                !.throttle = 0,
                !.brake = Min(100, s - c.target_speed)]

\* Car._update_telemetry (the g-forces, which nothing reads, are left out)
update_car_telemetry(c) ==
    [c EXCEPT
       !.speed = c.current_speed,
       !.rpm = 8000 + (c.current_speed * 7000) \div MAX_SPEED,
       !.gear = Min(8, Max(1, c.current_speed \div 40)),
       !.drs = is_in_drs_zone(c.track_t) /\ c.gap_to_ahead < DRS_GAP]

\* performance of Car.update, in 1/1000
performance(c) ==
    (base_performance(c) * c.tire_wear * (200 - c.damage)) \div 100000

\* movement of Car.update, in position units: per second of simulated time
\* first, then for dt * mult
movement(c, dt, mult) ==
    LET per_second == (ACCELERATION * c.current_speed * performance(c))
                          \div (MAX_SPEED * 1000)
    IN  (per_second * dt * mult) \div TimeScale

\* a variant of Car._should_pit that pits for critical tires only
should_pit_tires(c) ==
    /\ c.state # "PIT_ENTRY"
    /\ c.tire_wear < CRITICAL_TIRE * TireScale
    /\ Abs(c.track_t - ENTRY_T) < PIT_TOLERANCE

\* a variant of Car._should_pit that pits for critical tires wherever the car is
should_pit_anywhere(c) ==
    /\ c.state # "PIT_ENTRY"
    /\ \/ /\ c.target_pit_lap # NONE
          /\ c.current_lap >= c.target_pit_lap
          /\ Abs(c.track_t - ENTRY_T) < PIT_TOLERANCE
       \/ c.tire_wear < CRITICAL_TIRE * TireScale

\* Car._should_pit
should_pit(c) ==
    /\ c.state # "PIT_ENTRY"
    /\ \/ /\ c.target_pit_lap # NONE
          /\ c.current_lap >= c.target_pit_lap
          /\ Abs(c.track_t - ENTRY_T) < PIT_TOLERANCE
       \/ /\ c.tire_wear < CRITICAL_TIRE * TireScale
          /\ Abs(c.track_t - ENTRY_T) < PIT_TOLERANCE

\* Car._enter_pit
enter_pit(c) == [c EXCEPT !.state = "PIT_ENTRY"]

\* a variant of the pit stop whose repair has no floor
complete_pit_stop_no_floor(c) ==
    [c EXCEPT
       !.state = "PIT_EXIT",
       !.pit_stops_made = @ + 1,
       !.tire_wear = 100 * TireScale,
       !.fuel_remaining = 100,
       !.damage = @ - PIT_REPAIR,
       !.target_pit_lap = NONE]

\* Car._complete_pit_stop
complete_pit_stop(c) ==
    [c EXCEPT
       !.state = "PIT_EXIT",
       !.pit_stops_made = @ + 1,
       !.tire_wear = 100 * TireScale,
       !.fuel_remaining = 100,
       !.damage = Max(0, @ - PIT_REPAIR),
       !.target_pit_lap = NONE]

\* Car._update_pit_stop
update_pit_stop(c, dt, mult) ==
    LET timed == [c EXCEPT !.pit_stop_timer = @ - dt * mult]
    IN  IF timed.pit_stop_timer <= 0 THEN complete_pit_stop(timed) ELSE timed

\* Car.update
car_update(c, dt, mult) ==
    IF c.state \in {"DNF", "FINISHED", "GRID"} THEN c
    ELSE IF c.state = "IN_PIT" THEN update_pit_stop(c, dt, mult)
    ELSE LET c1 == update_car_telemetry(update_speed(update_target_speed(c), dt))
             c2 == set_track_t(c1, c1.track_t + movement(c1, dt, mult))
             c3 == [c2 EXCEPT !.lap_time = @ + dt * mult]
         IN  IF should_pit(c3) THEN enter_pit(c3) ELSE c3

\* Car.start_pit_stop
start_pit_stop(c, duration) ==
    [c EXCEPT !.state = "IN_PIT", !.pit_stop_timer = duration]

\* Car.exit_pit
exit_pit(c) == [c EXCEPT !.state = "RACING"]

\* Car.start_race
car_start_race(c) == [c EXCEPT !.state = "RACING", !.current_speed = 0]

\* Car.apply_damage
apply_damage(c, amount) ==
    LET d == Min(100, c.damage + amount)
    IN  [c EXCEPT !.damage = d,
                  !.state = IF d >= 100 THEN "DNF" ELSE @]

\* TeamConfig.driver of the car's team: the default teams' names, and one
\* name for the further teams of a longer roster
driver_of(c) ==
    IF c.start_position \in DOMAIN Drivers THEN Drivers[c.start_position] ELSE "Entrant"

\* Car.to_dict
to_dict(c) ==
    [ driver        |-> driver_of(c),
      position      |-> c.position,
      track_t       |-> c.track_t,
      state         |-> c.state,
      lap           |-> c.current_lap,
      speed         |-> c.speed,
      rpm           |-> c.rpm,
      gear          |-> c.gear,
      throttle      |-> c.throttle,
      brake         |-> c.brake,
      drs           |-> c.drs,
      tire_wear     |-> c.tire_wear,
      fuel          |-> c.fuel_remaining,
      lap_time      |-> c.lap_time,
      last_lap      |-> c.last_lap_time,
      best_lap      |-> IF c.best_lap_time # INF THEN c.best_lap_time ELSE NONE,
      gap_to_leader |-> c.gap_to_leader,
      damage        |-> c.damage,
      pit_stops     |-> c.pit_stops_made ]

(***************************************************************************)
(* RaceController                                                          *)
(***************************************************************************)
\* a variant of the sort key that ranks RACING cars by track position ascending
sort_key_ascending(c) ==
    << -c.current_lap,
       IF c.state = "RACING" THEN c.track_t ELSE -1000 * PosScale,
       IF c.state # "DNF" THEN 1 ELSE 0 >>

\* the sort key of RaceController._update_positions
sort_key(c) ==
    << -c.current_lap,
       IF c.state = "RACING" THEN -c.track_t ELSE -1000 * PosScale,
       IF c.state # "DNF" THEN 1 ELSE 0 >>

\* Python's tuple comparison a < b
key_less(a, b) ==
    \/ a[1] < b[1]
    \/ a[1] = b[1] /\ a[2] < b[2]
    \/ a[1] = b[1] /\ a[2] = b[2] /\ a[3] < b[3]

\* sorted() is stable: car a comes before car b when its key is less, or
\* when the keys are equal and a is earlier in the roster
sorts_before(cs, a, b) ==
    LET key_a == sort_key(cs[a])
        key_b == sort_key(cs[b])
    IN  \/ key_less(key_a, key_b)
        \/ ~key_less(key_b, key_a) /\ a < b

\* sorted(self.cars, key=...), as roster indices
sorted_cars(cs) ==
    SortSeq([i \in 1..Len(cs) |-> i], LAMBDA a, b : sorts_before(cs, a, b))

\* a variant of the gap that does not add the lap to a negative difference
gap_of_no_wrap(cs, order, r) ==
    LET car == cs[order[r]]
        ahead == cs[order[r - 1]]
        diff == ahead.track_t - car.track_t
    IN  IF car.state = "DNF" THEN INF
        ELSE IF car.current_lap = ahead.current_lap
             THEN diff * SECONDS_PER_LAP
             ELSE (ahead.current_lap - car.current_lap) * SECONDS_PER_LAP * PosScale

\* the gaps of one car at rank r > 1 in RaceController._update_positions
gap_of(cs, order, r) ==
    LET car == cs[order[r]]
        ahead == cs[order[r - 1]]
        diff == ahead.track_t - car.track_t
    IN  IF car.state = "DNF" THEN INF
        ELSE IF car.current_lap = ahead.current_lap
             THEN (IF diff < 0 THEN diff + PosScale ELSE diff) * SECONDS_PER_LAP
             ELSE (ahead.current_lap - car.current_lap) * SECONDS_PER_LAP * PosScale

\* the rank of car i in the sorted order
rank_in(order, i) == CHOOSE r \in 1..Len(order) : order[r] = i

\* a variant of the standings update that leaves the leader's gap as it was
update_positions_keeps_gap(cs) ==
    LET order == sorted_cars(cs)
    IN  [i \in DOMAIN cs |->
           LET r == rank_in(order, i)
           IN  IF r = 1
               THEN [cs[i] EXCEPT !.position = 1]
               ELSE [cs[i] EXCEPT !.position = r,
                                  !.gap_to_ahead = gap_of(cs, order, r),
                                  !.gap_to_leader = gap_of(cs, order, r)]]

\* RaceController._update_positions: the cars with position and gaps set
update_positions(cs) ==
    LET order == sorted_cars(cs)
    IN  [i \in DOMAIN cs |->
           LET r == rank_in(order, i)
           IN  IF r = 1
               THEN [cs[i] EXCEPT !.position = 1, !.gap_to_leader = 0]
               ELSE [cs[i] EXCEPT !.position = r,
                                  !.gap_to_ahead = gap_of(cs, order, r),
                                  !.gap_to_leader = gap_of(cs, order, r)]]

\* current_lap as RaceController._update_positions sets it: the leader's lap
leader_lap(cs) == cs[sorted_cars(cs)[1]].current_lap

\* the track distance of RaceController._check_collisions
collision_dist(c1, c2) ==
    LET dist == Abs(c1.track_t - c2.track_t)
    IN  IF dist > PosScale \div 2 THEN PosScale - dist ELSE dist

\* the cars behind car1 in the roster that the inner loop of
\* RaceController._check_collisions finds RACING and closer than the
\* threshold; apply_damage moves no car, and a car2 is not touched by the
\* inner loop before its own turn
in_contact(cs, i) ==
    { j \in (i + 1)..Len(cs) : /\ cs[j].state = "RACING"
                               /\ collision_dist(cs[i], cs[j]) < COLLISION_DIST }

\* RaceController._check_collisions: the set of outcomes of the scan over the
\* draws of random.uniform(1, 5).  An outcome holds the cars and, in order,
\* the calls of the two apply_damage lines: the roster slots of car1 and
\* car2, their states when the lines are reached and the amount passed.
\* collide_outer is the loop over car1, whose state is tested once, before
\* its inner loop; it goes on at the next car1 that is RACING and has a car
\* in contact.  collide_inner is the loop over the cars js in contact with
\* car1, in roster order.
RECURSIVE collide_outer(_, _)
RECURSIVE collide_inner(_, _, _)
collide_outer(o, i) ==
    LET cs == o.cs
        hit == { k \in i..Len(cs) : cs[k].state = "RACING" /\ in_contact(cs, k) # {} }
    IN  IF hit = {} THEN {o}
        ELSE LET car1 == CHOOSE k \in hit : \A m \in hit : k <= m
             IN  UNION { collide_outer(after, car1 + 1)
                         : after \in collide_inner(o, car1, in_contact(cs, car1)) }

collide_inner(o, i, js) ==
    IF js = {} THEN {o}
    ELSE LET cs == o.cs
             j == CHOOSE k \in js : \A m \in js : k <= m
         IN  UNION { collide_inner(
                         [ cs   |-> [k \in DOMAIN cs |-> IF k = i \/ k = j
                                                    THEN apply_damage(cs[k], damage)
                                                    ELSE cs[k]],
                           hits |-> Append(o.hits, [ car1 |-> i, car2 |-> j,
                                                     state1 |-> cs[i].state,
                                                     state2 |-> cs[j].state,
                                                     damage |-> damage ]) ],
                         i, js \ {j})
                      : damage \in DamageDraws }

collision_scan(cs) == collide_outer([cs |-> cs, hits |-> <<>>], 1)

\* the cars RaceController._check_collisions can leave
check_collisions(cs) == { o.cs : o \in collision_scan(cs) }

\* sorted(self.cars, key=lambda c: c.position), as roster indices
by_position(cs) ==
    SortSeq([i \in 1..Len(cs) |-> i],
            LAMBDA a, b : \/ cs[a].position < cs[b].position
                          \/ cs[a].position = cs[b].position /\ a < b)

\* TelemetryManager.update_car_data for car i inside _update_telemetry: the
\* per-car cache as it is while TelemetryChannel.push calls the subscribers of
\* the car's channel.  stored is the cache before the tick, records are the
\* to_dict records of the tick; the cars are sent in roster order, and the
\* race record is stored after the last of them.
car_data_at_push(stored, records, i) ==
    [k \in DOMAIN records |-> IF k <= i THEN records[k] ELSE stored[k]]

\* the race-level record of RaceController._update_telemetry
race_record(cs, lap, laps, time) ==
    LET order == by_position(cs)
    IN  [ lap        |-> lap,
          total_laps |-> laps,
          race_time  |-> time,
          leader     |-> driver_of(cs[1]),
          standings  |-> [r \in DOMAIN cs |-> driver_of(cs[order[r]])] ]

\* a variant of the test that wants one lap more than the race has
crossed_finish_late(c, laps) == c.current_lap > laps /\ c.state = "RACING"

\* the test of RaceController._check_race_finish on one car
crossed_finish(c, laps) == c.current_lap >= laps /\ c.state = "RACING"

\* RaceController._check_race_finish: the cars after the loop
check_race_finish(cs, laps) ==
    [i \in DOMAIN cs |-> IF crossed_finish(cs[i], laps)
                    THEN [cs[i] EXCEPT !.state = "FINISHED"]
                    ELSE cs[i]]

\* a variant of the finish check that keeps the last car found as the winner
finish_winner_last(cs, laps, finished, w) ==
    IF ~finished /\ \E i \in DOMAIN cs : crossed_finish(cs[i], laps)
    THEN CHOOSE i \in DOMAIN cs : /\ crossed_finish(cs[i], laps)
                             /\ \A j \in DOMAIN cs : crossed_finish(cs[j], laps) => j <= i
    ELSE w

\* RaceController._check_race_finish: the winner after the loop
finish_winner(cs, laps, finished, w) ==
    IF ~finished /\ \E i \in DOMAIN cs : crossed_finish(cs[i], laps)
    THEN CHOOSE i \in DOMAIN cs : /\ crossed_finish(cs[i], laps)
                             /\ \A j \in DOMAIN cs : crossed_finish(cs[j], laps) => i <= j
    ELSE w

\* RaceController.set_speed: the clamp
clamp_speed(speed) == Max(MIN_MULTIPLIER, Min(MAX_MULTIPLIER, speed))

(***************************************************************************)
(* TelemetryChannel                                                        *)
(***************************************************************************)
\* TelemetryChannel.__init__, with the history of the last push: the data
\* pushed, the subscribers when it began and the calls it made of each callback
NewChannel ==
    [ subscribers |-> <<>>,
      buffer      |-> <<>>,
      pushed      |-> NONE,
      begun       |-> <<>>,
      calls       |-> [cb \in Callbacks |-> 0] ]

\* callback in self._subscribers
subscribed(subs, cb) == \E k \in DOMAIN subs : subs[k] = cb

\* TelemetryChannel.subscribe, on the list
subscribe(subs, cb) == IF subscribed(subs, cb) THEN subs ELSE Append(subs, cb)

\* TelemetryChannel.unsubscribe, on the list: list.remove takes out the first
\* occurrence
unsubscribe(subs, cb) ==
    IF subscribed(subs, cb)
    THEN LET first == CHOOSE k \in DOMAIN subs :
                          subs[k] = cb /\ \A m \in 1..(k - 1) : subs[m] # cb
         IN  SubSeq(subs, 1, first - 1) \o SubSeq(subs, first + 1, Len(subs))
    ELSE subs

\* deque(maxlen=buffer_size).append
buffer_append(buffer, snapshot) ==
    IF Len(buffer) < BufferSize
    THEN Append(buffer, snapshot)
    ELSE Append(Tail(buffer), snapshot)

\* the loop "for callback in self._subscribers" of TelemetryChannel.push: the
\* list iterator holds an index into the list itself, which a callback may
\* shorten by unsubscribe.  does[callback] is what the callback does when it
\* is called: it returns, raises an Exception (which push catches), or calls
\* unsubscribe of a callback.
RECURSIVE notify(_, _, _, _)
notify(subs, index, does, calls) ==
    IF index > Len(subs) THEN [subscribers |-> subs, calls |-> calls]
    ELSE LET callback == subs[index]
             after == IF does[callback].what = "unsubscribes"
                      THEN unsubscribe(subs, does[callback].whom)
                      ELSE subs
         IN  notify(after, index + 1, does, [calls EXCEPT ![callback] = @ + 1])

\* TelemetryChannel.push
push(ch, data, does) ==
    LET done == notify(ch.subscribers, 1, does, [cb \in Callbacks |-> 0])
    IN  [ subscribers |-> done.subscribers,
          buffer      |-> buffer_append(ch.buffer, data),
          pushed      |-> data,
          begun       |-> ch.subscribers,
          calls       |-> done.calls ]

(***************************************************************************)
(* The state machine                                                       *)
(***************************************************************************)
\* the draws of random.randint(20, 30) considered: one per car, in roster order
PitLapDraws == { [i \in Cars |-> PIT_LAP_LO + ((i - 1) % (PIT_LAP_HI - PIT_LAP_LO + 1))] }

\* RaceController.__init__
new_cars(pit) == [i \in DOMAIN pit |-> [NewCar(i) EXCEPT !.target_pit_lap = pit[i]]]

\* RaceController.setup_cars: the staggered grid
setup_cars(cs) ==
    [i \in DOMAIN cs |-> [cs[i] EXCEPT !.track_t = GRID_FRONT - (i - 1) * GRID_STEP]]

\* the fields Track.load_from_data, RaceController.__init__ and
\* TelemetryManager.__init__ set, for a roster of given teams and a track of
\* the control points track_points
InitLoaded(given, track_points, cs, laps) ==
    /\ teams_arg = given
    /\ points = track_points
    /\ cars = cs
    /\ total_laps = laps
    /\ is_running = FALSE
    /\ is_paused = FALSE
    /\ race_time = 0
    /\ current_lap = 0
    /\ speed_multiplier = DEFAULT_MULTIPLIER
    /\ race_finished = FALSE
    /\ winner = NONE
    /\ car_data = [i \in DOMAIN cs |-> [state |-> "NONE"]]
    /\ race_data = [lap |-> NONE]
    /\ emitted = 0
    /\ last_op = "init"
    /\ last_dt = 0
    /\ after_positions = cs
    /\ hits = <<>>
    /\ channel = NewChannel
    /\ ops = 0

\* the same with the roster passed in full and the default track
InitRace(cs, laps) == InitLoaded(Len(cs), Banks, cs, laps)

\* the extension's start-up: the components are built and the scene is set up
Init ==
    \E pit \in PitLapDraws, laps \in 1..MaxTotalLaps :
        InitRace(setup_cars(new_cars(pit)), laps)

Called(op) ==
    /\ ops < MaxOps
    /\ ops' = ops + 1
    /\ last_op' = op
    /\ UNCHANGED <<last_dt, after_positions, hits, channel, total_laps, teams_arg, points>>

\* a variant of start_race that starts a new race
StartRaceAfresh ==
    /\ Called("start_race")
    /\ is_running' = TRUE
    /\ is_paused' = FALSE
    /\ race_time' = 0
    /\ race_finished' = FALSE
    /\ winner' = NONE
    /\ cars' = [i \in DOMAIN cars |-> car_start_race(cars[i])]
    /\ UNCHANGED <<current_lap, speed_multiplier, car_data, race_data, emitted>>

\* RaceController.start_race
StartRace ==
    /\ Called("start_race")
    /\ is_running' = TRUE
    /\ is_paused' = FALSE
    /\ race_time' = 0
    /\ cars' = [i \in DOMAIN cars |-> car_start_race(cars[i])]
    /\ UNCHANGED <<current_lap, speed_multiplier, race_finished, winner,
                   car_data, race_data, emitted>>

\* RaceController.stop_race
StopRace ==
    /\ Called("stop_race")
    /\ is_running' = FALSE
    /\ UNCHANGED <<cars, is_paused, race_time, current_lap, speed_multiplier,
                   race_finished, winner, car_data, race_data, emitted>>

\* RaceController.pause_race
PauseRace ==
    /\ Called("pause_race")
    /\ is_paused' = TRUE
    /\ UNCHANGED <<cars, is_running, race_time, current_lap, speed_multiplier,
                   race_finished, winner, car_data, race_data, emitted>>

\* RaceController.resume_race
ResumeRace ==
    /\ Called("resume_race")
    /\ is_paused' = FALSE
    /\ UNCHANGED <<cars, is_running, race_time, current_lap, speed_multiplier,
                   race_finished, winner, car_data, race_data, emitted>>

\* RaceController.set_speed
SetSpeed(speed) ==
    /\ Called("set_speed")
    /\ speed_multiplier' = clamp_speed(speed)
    /\ UNCHANGED <<cars, is_running, is_paused, race_time, current_lap,
                   race_finished, winner, car_data, race_data, emitted>>

\* a call of a method of one car, which leaves the car as c
CarDoes(op, i, c) ==
    /\ ops' = ops + 1
    /\ last_op' = op
    /\ cars' = [cars EXCEPT ![i] = c]
    /\ UNCHANGED <<teams_arg, points, total_laps, is_running, is_paused, race_time, current_lap,
                   speed_multiplier, race_finished, winner, car_data,
                   race_data, emitted, last_dt, after_positions, hits, channel>>

\* the same, while fewer than MaxOps control operations have been called
CarCalled(op, i, c) ==
    /\ ops < MaxOps
    /\ CarDoes(op, i, c)

\* Car.start_pit_stop on car i
CarStartPitStop(i, duration) ==
    CarCalled("start_pit_stop", i, start_pit_stop(cars[i], duration))

\* Car.exit_pit on car i
CarExitPit(i) == CarCalled("exit_pit", i, exit_pit(cars[i]))

\* Car.start_race on car i
CarStartRace(i) == CarCalled("car_start_race", i, car_start_race(cars[i]))

\* Car.apply_damage on car i
CarApplyDamage(i, amount) ==
    CarCalled("apply_damage", i, apply_damage(cars[i], amount))

\* a variant of the guard of RaceController.update that ignores the pause
update_runs_paused == is_running /\ ~race_finished

\* the guard of RaceController.update
update_runs == is_running /\ ~is_paused /\ ~race_finished

\* RaceController.update when the guard lets it run: the whole tick, while
\* fewer than limit ticks have run.  cs1 are the cars after Car.update, cs2
\* after _update_positions, cs3 after _check_collisions; _update_telemetry
\* reads cs3, _check_race_finish ends the tick.  A tick with dt <= 0 counts
\* as a control operation.
Tick(dt, limit) ==
    /\ update_runs
    /\ emitted < limit
    /\ dt > 0 \/ ops < MaxOps
    /\ ops' = IF dt > 0 THEN ops ELSE ops + 1
    /\ last_op' = "update"
    /\ last_dt' = dt
    /\ LET time == race_time + dt * speed_multiplier
           cs1 == [i \in DOMAIN cars |-> car_update(cars[i], dt, speed_multiplier)]
           cs2 == update_positions(cs1)
           lap == leader_lap(cs1)
       IN  /\ race_time' = time
           /\ after_positions' = cs2
           /\ current_lap' = lap
           /\ \E scan \in collision_scan(cs2) :
                LET cs3 == scan.cs
                IN
                /\ hits' = scan.hits
                /\ car_data' = [i \in DOMAIN cars |-> to_dict(cs3[i])]
                /\ race_data' = race_record(cs3, lap, total_laps, time)
                /\ cars' = check_race_finish(cs3, total_laps)
                /\ winner' = finish_winner(cs3, total_laps, race_finished, winner)
                /\ race_finished' =
                     (race_finished \/ \E i \in DOMAIN cars : crossed_finish(cs3[i], total_laps))
    /\ emitted' = emitted + 1
    /\ UNCHANGED <<teams_arg, points, total_laps, is_running, is_paused, speed_multiplier, channel>>

\* the cars a tick of dt can leave in the current state: one outcome for each
\* way the draws of random.uniform in _check_collisions can fall
tick_outcomes(dt) ==
    LET cs1 == [i \in DOMAIN cars |-> car_update(cars[i], dt, speed_multiplier)]
    IN  { check_race_finish(cs3, total_laps) : cs3 \in check_collisions(update_positions(cs1)) }

Update(dt) == Tick(dt, MaxTicks)

\* RaceController.update when the guard makes it return at once, whatever dt is
UpdateReturns ==
    /\ ~update_runs
    /\ last_op' = "update_returned"
    /\ UNCHANGED <<teams_arg, points, cars, total_laps, is_running, is_paused, race_time,
                   current_lap, speed_multiplier, race_finished, winner,
                   car_data, race_data, emitted, last_dt, after_positions, hits, channel, ops>>

Next ==
    \/ StartRace
    \/ StopRace
    \/ PauseRace
    \/ ResumeRace
    \/ \E speed \in SpeedInputs : SetSpeed(speed)
    \/ \E i \in Cars, duration \in PitDurations : CarStartPitStop(i, duration)
    \/ \E i \in Cars : CarExitPit(i)
    \/ \E i \in Cars : CarStartRace(i)
    \/ \E i \in Cars, amount \in DamageAmounts : CarApplyDamage(i, amount)
    \/ \E dt \in DtSet : Update(dt)
    \/ UpdateReturns

Spec == Init /\ [][Next]_vars

(***************************************************************************)
(* A race of the default length with a pit crew: the race is started once, *)
(* frames of PitDt seconds follow, and the crew calls start_pit_stop on a  *)
(* car in PIT_ENTRY and exit_pit on a car in PIT_EXIT.                     *)
(***************************************************************************)
InitPit ==
    \E pit \in PitLapDraws : InitRace(setup_cars(new_cars(pit)), TOTAL_LAPS)

RaceStart == ~is_running /\ StartRace

PitTick == \E dt \in PitDts : Tick(dt, MaxPitTicks)

PitCrewStops(i) ==
    /\ cars[i].state = "PIT_ENTRY"
    /\ CarDoes("start_pit_stop", i, start_pit_stop(cars[i], PIT_STOP_DURATION))

PitCrewReleases(i) ==
    /\ cars[i].state = "PIT_EXIT"
    /\ CarDoes("exit_pit", i, exit_pit(cars[i]))

NextPit ==
    \/ RaceStart
    \/ PitTick
    \/ \E i \in Cars : PitCrewStops(i)
    \/ \E i \in Cars : PitCrewReleases(i)

SpecPit == InitPit /\ [][NextPit]_vars

(***************************************************************************)
(* A race of one car over SoloLaps laps at speed multiplier 1.0, in frames *)
(* of one second.  The roster has one team; the car is on the grid when    *)
(* setup_cars placed it and at track position 0 when setup_cars returned   *)
(* at once (no Omniverse).  The application calls update on every frame,   *)
(* which is the fairness of SpecSolo.                                      *)
(***************************************************************************)
SoloPitLaps == { <<lap>> : lap \in {PIT_LAP_LO, PIT_LAP_HI} }

InitSolo ==
    \E pit \in SoloPitLaps, placed \in BOOLEAN :
        InitRace(IF placed THEN setup_cars(new_cars(pit)) ELSE new_cars(pit),
                 SoloLaps)

SoloSetSpeed ==
    /\ ~is_running
    /\ speed_multiplier # TimeScale
    /\ SetSpeed(TimeScale)

SoloStart ==
    /\ ~is_running
    /\ speed_multiplier = TimeScale
    /\ StartRace

SoloTick == Tick(1, MaxSoloTicks)

SoloTickReturns == is_running /\ UpdateReturns

NextSolo ==
    \/ SoloSetSpeed
    \/ SoloStart
    \/ SoloTick
    \/ SoloTickReturns

\* ENABLED <<SoloTick>>_vars: the guard of Tick, which always adds a snapshot
SoloTickEnabled == update_runs /\ emitted < MaxSoloTicks

\* weak fairness of the three steps; that of SoloTick is written out, with
\* its enabling condition as SoloTickEnabled
SpecSolo ==
    /\ InitSolo /\ [][NextSolo]_vars
    /\ WF_vars(SoloSetSpeed)
    /\ WF_vars(SoloStart)
    /\ ([]<>~SoloTickEnabled \/ []<><<SoloTick>>_vars)

(***************************************************************************)
(* A long roster: the race of GridCars cars on the staggered grid, frames  *)
(* of one second, and damage reported for the car of the last grid slot    *)
(***************************************************************************)
GridPitLaps == [i \in 1..GridCars |-> PIT_LAP_LO]

InitGrid == InitRace(setup_cars(new_cars(GridPitLaps)), TOTAL_LAPS)

GridStart == ~is_running /\ StartRace

GridTick == Tick(1, MaxGridTicks)

\* damage is reported while the car is not out of the race
GridDamage(amount) ==
    /\ cars[GridCars].state # "DNF"
    /\ CarDoes("apply_damage", GridCars, apply_damage(cars[GridCars], amount))

NextGrid ==
    \/ GridStart
    \/ GridTick
    \/ \E amount \in DamageAmounts : GridDamage(amount)

SpecGrid == InitGrid /\ [][NextGrid]_vars

(***************************************************************************)
(* Cars in contact: the race of ContactCars cars that setup_cars has not   *)
(* placed (it returns at once outside the simulator), so that all start at *)
(* track_t 0, with heavy damage reported once for a car                    *)
(***************************************************************************)
ContactPitLaps == [i \in 1..ContactCars |-> PIT_LAP_LO]

InitContact == InitRace(new_cars(ContactPitLaps), TOTAL_LAPS)

ContactStart == ~is_running /\ StartRace

ContactTick == Tick(1, MaxContactTicks)

ContactDamage(i, amount) ==
    /\ cars[i].damage = 0
    /\ CarDoes("apply_damage", i, apply_damage(cars[i], amount))

NextContact ==
    \/ ContactStart
    \/ ContactTick
    \/ \E i \in 1..ContactCars, amount \in ContactDamages : ContactDamage(i, amount)

SpecContact == InitContact /\ [][NextContact]_vars

(***************************************************************************)
(* Configurations: the race built from a roster that may be empty and a    *)
(* track loaded with the default points or with three points, the cars on  *)
(* the grid, frames of one second                                          *)
(***************************************************************************)
\* self.teams = teams or DEFAULT_TEAMS, by its length
teams_used(given) == IF given = 0 THEN Len(Drivers) ELSE given

InitConfig ==
    \E given \in ConfigRosters, track_points \in ConfigTracks :
        InitLoaded(given, track_points,
                   setup_cars(new_cars([i \in 1..teams_used(given) |-> PIT_LAP_LO])),
                   TOTAL_LAPS)

ConfigStart == ~is_running /\ StartRace

ConfigTick == Tick(1, MaxConfigTicks)

NextConfig == ConfigStart \/ ConfigTick

SpecConfig == InitConfig /\ [][NextConfig]_vars

(***************************************************************************)
(* Pit stops of damaged cars: the default race on the grid, frames of 4 s, *)
(* damage reported once for each of the first two cars and each of them    *)
(* called in for one stop of the default duration                          *)
(***************************************************************************)
StopStart == ~is_running /\ StartRace

StopTick == \E dt \in PitDts : Tick(dt, MaxStopTicks)

StopDamage(i, amount) ==
    /\ cars[i].damage = 0
    /\ cars[i].pit_stops_made = 0
    /\ CarDoes("apply_damage", i, apply_damage(cars[i], amount))

StopCalledIn(i, duration) ==
    /\ cars[i].state = "RACING"
    /\ cars[i].pit_stops_made = 0
    /\ CarDoes("start_pit_stop", i, start_pit_stop(cars[i], duration))

NextStop ==
    \/ StopStart
    \/ StopTick
    \/ \E i \in StopCars, amount \in StopDamages : StopDamage(i, amount)
    \/ \E i \in StopCars, duration \in PitDurations : StopCalledIn(i, duration)

SpecStop == InitPit /\ [][NextStop]_vars

(***************************************************************************)
(* Endurance: one car at speed multiplier 1.0 in frames of WearDt seconds, *)
(* driven by update alone once the race has started.  Nobody calls         *)
(* start_pit_stop or exit_pit.  SpecWear adds damage reported once, before  *)
(* the first frame.                                                        *)
(***************************************************************************)
InitEndurance ==
    \E pit \in SoloPitLaps : InitRace(setup_cars(new_cars(pit)), TOTAL_LAPS)

EnduranceTick == Tick(WearDt, MaxWearTicks)

NextEndurance ==
    \/ SoloSetSpeed
    \/ SoloStart
    \/ EnduranceTick

\* ENABLED <<EnduranceTick>>_vars: the guard of Tick
EnduranceTickEnabled == update_runs /\ emitted < MaxWearTicks

\* the application calls update on every frame
SpecEndurance ==
    /\ InitEndurance /\ [][NextEndurance]_vars
    /\ WF_vars(SoloSetSpeed)
    /\ WF_vars(SoloStart)
    /\ ([]<>~EnduranceTickEnabled \/ []<><<EnduranceTick>>_vars)

WearDamage(amount) ==
    /\ is_running
    /\ emitted = 0
    /\ cars[1].damage = 0
    /\ CarDoes("apply_damage", 1, apply_damage(cars[1], amount))

NextWear ==
    \/ NextEndurance
    \/ \E amount \in WearDamages : WearDamage(amount)

SpecWear == InitEndurance /\ [][NextWear]_vars

(***************************************************************************)
(* Fast forward: one car, the speed multiplier set once before the start,  *)
(* frames of one second                                                    *)
(***************************************************************************)
FastSetSpeed(speed) ==
    /\ ~is_running
    /\ ops = 0
    /\ SetSpeed(speed)

FastStart == ~is_running /\ StartRace

FastTick == Tick(1, MaxFastTicks)

NextFast ==
    \/ \E speed \in SpeedInputs : FastSetSpeed(speed)
    \/ FastStart
    \/ FastTick

SpecFast == InitEndurance /\ [][NextFast]_vars

(***************************************************************************)
(* To the finish: the race of Spec on the grid, the speed multiplier set   *)
(* once before the start, heavy damage reported for one car before the     *)
(* first frame, frames of one second until a car has won                   *)
(***************************************************************************)
FinishSetSpeed(speed) ==
    /\ ~is_running
    /\ ops = 0
    /\ SetSpeed(speed)

FinishStart == ~is_running /\ StartRace

FinishDamage(i, amount) ==
    /\ is_running
    /\ emitted = 0
    /\ \A j \in DOMAIN cars : cars[j].damage = 0
    /\ CarDoes("apply_damage", i, apply_damage(cars[i], amount))

FinishTick == Tick(1, MaxFinishTicks)

NextFinish ==
    \/ \E speed \in SpeedInputs : FinishSetSpeed(speed)
    \/ FinishStart
    \/ \E i \in Cars, amount \in ContactDamages : FinishDamage(i, amount)
    \/ FinishTick

SpecFinish == Init /\ [][NextFinish]_vars

(***************************************************************************)
(* After the finish: the race of SpecFinish, and once a car has won, the   *)
(* operations of RaceController called on the finished race                *)
(***************************************************************************)
AfterFinish ==
    /\ race_finished
    /\ \/ StartRace
       \/ StopRace
       \/ PauseRace
       \/ ResumeRace
       \/ \E speed \in SpeedInputs : SetSpeed(speed)
       \/ UpdateReturns

NextRestart ==
    \/ NextFinish
    \/ AfterFinish

SpecRestart == Init /\ [][NextRestart]_vars

(***************************************************************************)
(* A telemetry channel on its own: callbacks subscribe and unsubscribe,    *)
(* and data is pushed, with each callback returning, raising or            *)
(* unsubscribing a callback when called                                    *)
(***************************************************************************)
ChannelDoes(op, ch) ==
    /\ channel' = ch
    /\ last_op' = op
    /\ UNCHANGED <<teams_arg, points, cars, total_laps, is_running, is_paused,
                   race_time, current_lap, speed_multiplier, race_finished, winner,
                   car_data, race_data, emitted, last_dt, after_positions, hits, ops>>

\* TelemetryChannel.subscribe
Subscribe(cb) ==
    ChannelDoes("subscribe", [channel EXCEPT !.subscribers = subscribe(@, cb)])

\* TelemetryChannel.unsubscribe, called between pushes
Unsubscribe(cb) ==
    ChannelDoes("unsubscribe", [channel EXCEPT !.subscribers = unsubscribe(@, cb)])

\* TelemetryChannel.push
Push(data, does) == ChannelDoes("push", push(channel, data, does))

NextChannel ==
    \/ \E cb \in Callbacks : Subscribe(cb)
    \/ \E cb \in Callbacks : Unsubscribe(cb)
    \/ \E data \in PushData, does \in [Callbacks -> CallbackDoes] : Push(data, does)

SpecChannel == Init /\ [][NextChannel]_vars

(***************************************************************************)
(* Properties                                                              *)
(***************************************************************************)
\* the step is a call of RaceController.update
UpdateCalled == last_op' \in {"update", "update_returned"}

\* the step is a call of RaceController.update made while the race is
\* running, not paused and not finished
TickCalled == UpdateCalled /\ is_running /\ ~is_paused /\ ~race_finished

\* C1: once a car's damage has reached 100 the car is DNF, and a DNF car with
\* damage 100 is still DNF after any operation.
C1_DnfIsPermanent ==
    [][\A i \in Cars :
         /\ cars'[i].damage >= 100 /\ cars[i].damage < 100 => cars'[i].state = "DNF"
         /\ cars[i].damage >= 100 /\ cars[i].state = "DNF" => cars'[i].state = "DNF"]_vars

\* C2: in the standings a tick computes, no DNF car is ranked ahead of a car
\* that is not DNF and has completed at least as many laps.
C2_DnfAtTheBack ==
    emitted > 0 =>
        \A d \in Cars, r \in Cars :
            /\ after_positions[d].state = "DNF"
            /\ after_positions[r].state # "DNF"
            /\ after_positions[r].current_lap >= after_positions[d].current_lap
            => after_positions[r].position < after_positions[d].position

\* two cars have equal sort keys: same laps, both RACING at the same track
\* position or both not RACING and alike in being DNF
SameKey(a, b) ==
    /\ a.current_lap = b.current_lap
    /\ (a.state = "RACING") = (b.state = "RACING")
    /\ a.state = "RACING" => a.track_t = b.track_t
    /\ (a.state = "DNF") = (b.state = "DNF")

C4_WinnerRecordedOnce ==
    [][/\ ~race_finished' => winner' = NONE
       /\ race_finished' => /\ winner' \in Cars
                            /\ cars'[winner'].current_lap >= total_laps
       /\ race_finished => race_finished' /\ winner' = winner
       /\ (~race_finished /\ race_finished') =>
             /\ cars'[winner'].state = "FINISHED"
             /\ cars[winner'].state # "FINISHED"
             /\ \A j \in Cars :
                  (cars'[j].state = "FINISHED" /\ cars[j].state # "FINISHED")
                  => winner' <= j]_vars

C4_Witness ==
    /\ race_finished
    /\ winner \in Cars
    /\ last_op = "update_returned"
    /\ \E j \in Cars : j # winner /\ cars[j].state = "FINISHED"

\* C5: after the winner is recorded, an update call on the running, unpaused
\* race advances every car that is still RACING.
C5_OthersContinue ==
    [][(UpdateCalled /\ is_running /\ ~is_paused /\ race_finished)
        => \A i \in Cars : cars[i].state = "RACING" => cars'[i] # cars[i]]_vars

\* C6: an update call changes nothing when the race is not running, or is
\* paused, or is finished: race time, cars, standings, gaps, damage and the
\* telemetry are as before.
C6_TickIsNoOp ==
    [][(UpdateCalled /\ (~is_running \/ is_paused \/ race_finished))
        => UNCHANGED <<cars, race_time, current_lap, race_finished, winner,
                       car_data, race_data, emitted>>]_vars

C6_Witness ==
    /\ last_op = "update_returned"
    /\ is_running
    /\ is_paused
    /\ emitted > 0
    /\ \E i \in Cars : cars[i].state = "RACING" /\ cars[i].current_speed > 0

\* the fields C7 lists, of one car
Advancing(c) ==
    <<c.track_t, c.current_speed, c.speed, c.throttle, c.brake, c.current_lap,
      c.damage, c.state>>

\* C7: a tick with dt <= 0 on a running, unpaused, unfinished race advances
\* nothing, and the snapshot it emits equals the one before.
C7_NonPositiveDtIsNoOp ==
    [][(TickCalled /\ last_dt' <= 0 /\ last_op' = "update")
        => /\ race_time' = race_time
           /\ \A i \in Cars : Advancing(cars'[i]) = Advancing(cars[i])
           /\ emitted > 0 => car_data' = car_data /\ race_data' = race_data]_vars

\* C8: the snapshot a tick emits comes after the finish check: a car that the
\* tick moves to FINISHED is FINISHED in the snapshot of that tick.
C8_SnapshotAfterFinishCheck ==
    [][TickCalled =>
        \A i \in Cars :
            (cars'[i].state = "FINISHED" /\ cars[i].state # "FINISHED")
            => car_data'[i].state = "FINISHED"]_vars

\* the seven transitions of the lifecycle
Transitions ==
    { <<"GRID", "RACING">>, <<"RACING", "PIT_ENTRY">>, <<"PIT_ENTRY", "IN_PIT">>,
      <<"IN_PIT", "PIT_EXIT">>, <<"PIT_EXIT", "RACING">>, <<"RACING", "DNF">>,
      <<"RACING", "FINISHED">> }

\* C9: every change of a car's state is one of the seven transitions.
C9_OnlyListedTransitions ==
    [][\A i \in Cars :
         cars'[i].state # cars[i].state
         => <<cars[i].state, cars'[i].state>> \in Transitions]_vars

\* C10: a tick moves a car that is on track with its target pit lap set and
\* reached, and that the tick leaves within the tolerance of the pit entry,
\* to PIT_ENTRY; and a car enters IN_PIT in a start_pit_stop call only.
C10_PitEntryByTicks ==
    [][/\ (TickCalled /\ last_op' = "update") =>
            \A i \in Cars :
                ( /\ cars[i].state \in {"RACING", "PIT_EXIT"}
                  /\ cars[i].target_pit_lap # NONE
                  /\ after_positions'[i].current_lap >= cars[i].target_pit_lap
                  /\ Abs(after_positions'[i].track_t - ENTRY_T) < PIT_TOLERANCE )
                => after_positions'[i].state = "PIT_ENTRY"
       /\ \A i \in Cars :
            (cars'[i].state = "IN_PIT" /\ cars[i].state # "IN_PIT")
            => last_op' = "start_pit_stop"]_vars

C10_Witness ==
    \E i \in Cars :
        /\ cars[i].state = "IN_PIT"
        /\ last_op = "start_pit_stop"
        /\ cars[i].target_pit_lap # NONE
        /\ cars[i].current_lap >= cars[i].target_pit_lap
        /\ after_positions[i].state = "PIT_ENTRY"
        /\ Abs(cars[i].track_t - ENTRY_T) < PIT_TOLERANCE

\* C11: in the race of one car the car comes to have completed total_laps
\* laps, FINISHED and recorded as the winner, and stays so; once FINISHED it
\* is never in another state.
C11_SoloRaceFinishes ==
    /\ <>[](/\ cars[1].current_lap = total_laps
            /\ cars[1].state = "FINISHED"
            /\ race_finished
            /\ winner = 1)
    /\ [][cars[1].state = "FINISHED" =>
            cars'[1].state = "FINISHED" /\ winner' = 1]_vars

C11_Witness ==
    /\ Len(cars) = 1
    /\ speed_multiplier = TimeScale
    /\ last_dt = 1
    /\ cars[1].current_lap = SoloLaps
    /\ cars[1].state = "FINISHED"
    /\ winner = 1
    /\ last_op = "update_returned"

\* C12: after every tick every car's track_t is in [0, 1), wherever the grid
\* placed the car.
C12_TrackPositionInRange ==
    last_op = "update" =>
        \A i \in DOMAIN cars : cars[i].track_t \in 0..(PosScale - 1)

\* C13: in every state, while some car is not DNF, the car whose position is 1
\* has gap_to_leader 0.
C13_LeaderGapIsZero ==
    (\E i \in Cars : cars[i].state # "DNF") =>
        \A i \in Cars : cars[i].position = 1 => cars[i].gap_to_leader = 0

\* a tick has made a car the leader that an earlier tick had ranked behind
C13_Witness ==
    /\ last_op = "update"
    /\ emitted >= 2
    /\ \E i \in Cars : cars[i].state # "DNF"
    /\ \E i \in Cars : /\ i # 1
                        /\ cars[i].position = 1
                        /\ cars[i].gap_to_leader = 0
                        /\ car_data[i].gap_to_leader = 0

\* the car that the standings update ranked immediately ahead of car i
AheadOf(i) ==
    after_positions[CHOOSE j \in Cars :
                        after_positions[j].position = after_positions[i].position - 1]

\* the track distance from car i up to the car ahead, a lap added when negative
TrackGap(i) ==
    LET diff == AheadOf(i).track_t - after_positions[i].track_t
    IN  IF diff < 0 THEN diff + PosScale ELSE diff

\* C14: as the standings update of a tick leaves them, every car that is
\* neither the leader nor DNF has gap_to_ahead = 90 x the track distance to the
\* car ahead when the two are on one lap and 90 x the lap difference
\* otherwise, and gap_to_leader = gap_to_ahead.
C14_GapFormulas ==
    emitted > 0 =>
        \A i \in Cars :
            LET car == after_positions[i]
            IN  car.position > 1 /\ car.state # "DNF" =>
                  /\ car.gap_to_ahead =
                        IF car.current_lap = AheadOf(i).current_lap
                        THEN 90 * TrackGap(i)
                        ELSE 90 * (AheadOf(i).current_lap - car.current_lap) * PosScale
                  /\ car.gap_to_leader = car.gap_to_ahead

\* a tick has ranked a car third on the lap of the car ahead of it, and a car
\* behind a car that is a lap up
C14_Witness ==
    /\ last_op = "update"
    /\ \E i \in Cars : /\ after_positions[i].position = 3
                        /\ after_positions[i].state # "DNF"
                        /\ after_positions[i].current_lap = AheadOf(i).current_lap
                        /\ after_positions[i].gap_to_leader > 0
    /\ \E i \in Cars : /\ after_positions[i].position > 1
                        /\ after_positions[i].state # "DNF"
                        /\ after_positions[i].current_lap < AheadOf(i).current_lap

\* C15: after every tick, every DNF car that is not at position 1 has
\* gap_to_leader and gap_to_ahead infinite, in the cars and in the records the
\* tick has sent, a car that a collision of the tick has put out included.
C15_DnfGapsInfinite ==
    last_op = "update" =>
        \A i \in DOMAIN cars :
            cars[i].state = "DNF" /\ cars[i].position # 1 =>
                /\ cars[i].gap_to_leader = INF
                /\ cars[i].gap_to_ahead = INF
                /\ car_data[i].gap_to_leader = INF

\* C16: in the race record a tick sends, the leader is the driver of the car
\* at position 1, the first name of the standings of the same record.
C16_LeaderIsFirstOfStandings ==
    last_op = "update" =>
        /\ race_data.leader = race_data.standings[1]
        /\ \A i \in Cars : car_data[i].position = 1 => race_data.leader = car_data[i].driver

\* C17: while the subscribers of a car's channel are called in a tick, the
\* per-car cache and the race record of the telemetry manager are those of the
\* completed tick, and the records show the cars as the finish check leaves
\* them.
C17_NoPartialTickState ==
    [][TickCalled =>
         \A i \in Cars :
             /\ car_data_at_push(car_data, car_data', i) = car_data'
             /\ race_data = race_data'
             /\ \A k \in Cars : car_data'[k].state = cars'[k].state]_vars

\* C18: a race built from an empty roster, or on a track loaded with fewer
\* than 4 control points, never runs a tick.
C18_ConfigErrorsFailFast ==
    teams_arg = 0 \/ Len(points) < 4 => emitted = 0

\* C19: the race is reproducible: whenever a tick can run, the roster, the
\* track, the controls called so far and dt determine the cars it leaves,
\* collision damage included.
C19_Reproducible ==
    update_runs => Cardinality(tick_outcomes(1)) = 1

\* C20: a tick leaves a car that is IN_PIT where it is, at its speed, lap and
\* lap time, and takes dt x multiplier off its pit timer; when the timer
\* comes to 0 or below the car has tire wear 100, fuel 100, damage less 20
\* but not below 0, no target pit lap, one pit stop more and state PIT_EXIT,
\* and otherwise it stays IN_PIT with all of these as they were.
C20_PitStop ==
    [][TickCalled =>
         \A i \in Cars :
             cars[i].state = "IN_PIT" =>
                 LET before == cars[i]
                     after == cars'[i]
                     left == before.pit_stop_timer - last_dt' * speed_multiplier
                 IN  /\ after.track_t = before.track_t
                     /\ after.current_speed = before.current_speed
                     /\ after.speed = before.speed
                     /\ after.current_lap = before.current_lap
                     /\ after.lap_time = before.lap_time
                     /\ after.pit_stop_timer = left
                     /\ IF left <= 0
                        THEN /\ after.state = "PIT_EXIT"
                             /\ after.tire_wear = 100 * TireScale
                             /\ after.fuel_remaining = 100
                             /\ after.damage = IF before.damage > 20
                                               THEN before.damage - 20 ELSE 0
                             /\ after.target_pit_lap = NONE
                             /\ after.pit_stops_made = before.pit_stops_made + 1
                        ELSE /\ after.state = "IN_PIT"
                             /\ after.tire_wear = before.tire_wear
                             /\ after.fuel_remaining = before.fuel_remaining
                             /\ after.damage = before.damage
                             /\ after.target_pit_lap = before.target_pit_lap
                             /\ after.pit_stops_made = before.pit_stops_made]_vars

\* a tick has ended the stop of a car that came in with damage 30, and the
\* stop of a second car, which has no damage left
C20_Witness ==
    /\ last_op = "update"
    /\ \E i \in Cars : /\ cars[i].state = "PIT_EXIT"
                        /\ cars[i].pit_stops_made = 1
                        /\ cars[i].pit_stop_timer <= 0
                        /\ cars[i].damage = 10
                        /\ cars[i].tire_wear = 100 * TireScale
    /\ \E i \in Cars : /\ cars[i].state = "PIT_EXIT"
                        /\ cars[i].pit_stops_made = 1
                        /\ cars[i].damage = 0
                        /\ car_data[i].damage = 0

\* the step completes a pit stop of car i
PitStopCompletes(i) ==
    /\ cars[i].state = "IN_PIT"
    /\ cars'[i].state = "PIT_EXIT"
    /\ cars'[i].pit_stops_made = cars[i].pit_stops_made + 1

\* C21: no step raises a car's tire wear value except one that completes a
\* pit stop of the car, and after such a step the value is 100.
C21_TireWearOnlyResetByPitStop ==
    [][\A i \in Cars :
          /\ cars'[i].tire_wear > cars[i].tire_wear => PitStopCompletes(i)
          /\ PitStopCompletes(i) => cars'[i].tire_wear = 100 * TireScale]_vars

\* a tick has completed the pit stop of a car that had worn its tires over a
\* lap
C21_Witness ==
    /\ last_op = "update"
    /\ \E i \in Cars : /\ cars[i].state = "PIT_EXIT"
                        /\ cars[i].pit_stops_made = 1
                        /\ cars[i].current_lap >= 1
                        /\ cars[i].pit_stop_timer <= 0
                        /\ cars[i].tire_wear = 100 * TireScale
                        /\ car_data[i].tire_wear = 100 * TireScale

C23_DamageBetweenRacingCarsOnly ==
    last_op = "update" =>
        /\ \A k \in DOMAIN hits :
              /\ hits[k].state1 = "RACING"
              /\ hits[k].state2 = "RACING"
              /\ hits[k].damage > 0
              /\ collision_dist(after_positions[hits[k].car1],
                                after_positions[hits[k].car2]) < COLLISION_DIST
        /\ \A i \in DOMAIN cars :
              (\A j \in DOMAIN cars \ {i} :
                   \/ after_positions[j].state # "RACING"
                   \/ collision_dist(after_positions[i], after_positions[j]) >= COLLISION_DIST)
              => cars[i].damage = after_positions[i].damage

\* the step takes car i over the lap-completion edge
LapEdge(i) ==
    /\ cars[i].track_t > LAP_EDGE_HIGH
    /\ cars'[i].track_t < LAP_EDGE_LOW

\* C24: the lap count of a car never decreases and changes only by one,
\* exactly in a step that takes the track position from above 0.95 to below
\* 0.05; after that step the last lap time is the lap time of before, the
\* best lap time is the smaller of the old one and that lap time if the lap
\* time is positive, the lap time is that of the tick alone, the tire wear
\* value is lower by 2 x (1 + damage/100) or 0, and the fuel lower by 2 or 0.
C24_LapCompletionEdge ==
    [][\A i \in DOMAIN cars :
          LET before == cars[i]
              after == cars'[i]
              wear == (TIRE_WEAR_RATE * (100 + before.damage) * TireScale) \div 100
          IN  /\ after.current_lap = before.current_lap + (IF LapEdge(i) THEN 1 ELSE 0)
              /\ LapEdge(i) =>
                    /\ last_op' = "update"
                    /\ after.last_lap_time = before.lap_time
                    /\ after.best_lap_time =
                          IF before.lap_time > 0
                          THEN Min(before.best_lap_time, before.lap_time)
                          ELSE before.best_lap_time
                    /\ after.lap_time = last_dt' * speed_multiplier
                    /\ after.tire_wear = Max(0, before.tire_wear - wear)
                    /\ after.fuel_remaining = Max(0, before.fuel_remaining - FUEL_PER_LAP)]_vars

\* a damaged car has completed a lap slower than its best one
C24_Witness ==
    /\ last_op = "update"
    /\ cars[1].damage \in WearDamages
    /\ cars[1].current_lap = 3
    /\ cars[1].lap_time = WearDt * speed_multiplier
    /\ cars[1].last_lap_time > cars[1].best_lap_time
    /\ cars[1].tire_wear < 100 * TireScale - 3 * TIRE_WEAR_RATE * TireScale
    /\ cars[1].fuel_remaining = 100 - 3 * FUEL_PER_LAP

\* C25: a car comes into PIT_ENTRY only in a tick that leaves it within 0.02
\* of the pit entry with its target pit lap set and reached or its tire wear
\* value below 20, and a tick leaves a car that is in PIT_ENTRY in PIT_ENTRY.
C25_PitTriggerOncePerApproach ==
    [][\A i \in DOMAIN cars :
          /\ (cars[i].state # "PIT_ENTRY" /\ cars'[i].state = "PIT_ENTRY") =>
                /\ last_op' = "update"
                /\ cars[i].state \in {"RACING", "PIT_EXIT"}
                /\ Abs(cars'[i].track_t - ENTRY_T) < PIT_TOLERANCE
                /\ \/ /\ cars'[i].target_pit_lap # NONE
                      /\ cars'[i].current_lap >= cars'[i].target_pit_lap
                   \/ cars'[i].tire_wear < CRITICAL_TIRE * TireScale
          /\ (cars[i].state = "PIT_ENTRY" /\ last_op' = "update") =>
                cars'[i].state = "PIT_ENTRY"]_vars

\* a car that came into PIT_ENTRY for its tires, before its target lap, has
\* left the pit entry behind and is in PIT_ENTRY still
C25_Witness ==
    /\ last_op = "update"
    /\ cars[1].state = "PIT_ENTRY"
    /\ cars[1].current_lap < cars[1].target_pit_lap
    /\ cars[1].tire_wear < CRITICAL_TIRE * TireScale
    /\ Abs(cars[1].track_t - ENTRY_T) > PIT_TOLERANCE

\* C26: if there is at all times a car that is not DNF, a race that is running
\* and not paused, and that update alone drives, comes to be finished with a
\* winner.
C26_RaceByTicksFinishes ==
    [](\E i \in DOMAIN cars : cars[i].state # "DNF")
        => ((is_running /\ ~is_paused) ~> (race_finished /\ winner # NONE))

\* the movement of car i in a tick of dt, as Car.update computes it
Advance(i, dt) ==
    movement(update_car_telemetry(update_speed(update_target_speed(cars[i]), dt)),
             dt, speed_multiplier)

\* the step is a tick in which car i moves by less than a lap, past the line
CrossesLine(i) ==
    /\ last_op' = "update"
    /\ last_dt' > 0
    /\ cars[i].state \notin {"DNF", "FINISHED", "GRID", "IN_PIT"}
    /\ Advance(i, last_dt') < PosScale
    /\ cars[i].track_t + Advance(i, last_dt') >= PosScale

\* C27: a tick of dt > 0 in which a car moves by less than a lap and past the
\* line raises the lap count of the car by one.
C27_EveryCrossingCounted ==
    [][\A i \in DOMAIN cars :
          CrossesLine(i) => cars'[i].current_lap = cars[i].current_lap + 1]_vars

\* C28: the car recorded as the winner in a tick is the car at position 1 of
\* the standings of that tick.
C28_WinnerIsFirst ==
    [][winner' # winner => after_positions'[winner'].position = 1]_vars

\* C29: once the race is finished no step changes race_finished or the
\* winner; start_race called on the finished race leaves it running with
\* every car RACING; and a call of update on it changes nothing of the race,
\* the cars or the telemetry.
C29_FinishedForGood ==
    [][race_finished =>
          /\ race_finished'
          /\ winner' = winner
          /\ last_op' = "start_race" =>
                /\ is_running'
                /\ \A i \in DOMAIN cars : cars'[i].state = "RACING"
          /\ UpdateCalled =>
                UNCHANGED <<cars, is_running, is_paused, race_time, current_lap,
                            speed_multiplier, car_data, race_data, emitted>>]_vars

\* update has been called on a finished race that start_race has set running
\* again, with every car RACING
C29_Witness ==
    /\ last_op = "update_returned"
    /\ race_finished
    /\ winner # NONE
    /\ is_running
    /\ ~is_paused
    /\ ops = MaxOps
    /\ \A i \in DOMAIN cars : cars[i].state = "RACING"

\* C30: after a push, every callback that was subscribed when the push began
\* has been called once in it, and the data pushed is the latest entry of the
\* buffer, whatever the callbacks did.
C30_EverySubscriberCalledOnce ==
    last_op = "push" =>
        /\ \A k \in DOMAIN channel.begun : channel.calls[channel.begun[k]] = 1
        /\ channel.buffer # <<>>
        /\ channel.buffer[Len(channel.buffer)] = channel.pushed

====
